---- MODULE Spec2Model ----
(***************************************************************************)
(* A model of the log-structured key/value engine of src/src/engines/kvs.rs *)
(* (KvStore, KvStoreReader, KvStoreWriter): segment files holding encoded   *)
(* commands, the in-memory index of command offsets, the writer mutex, the  *)
(* index read/write lock, the per-accessor reader pools and compaction.     *)
(*                                                                         *)
(* Byte positions are 0-based as in the code; a file is a sequence of       *)
(* one-character strings and SubSeq(bytes, pos + 1, pos + len) is the range *)
(* [pos, pos + len).                                                        *)
(***************************************************************************)
EXTENDS Integers, Sequences, FiniteSets, TLC

\* ------------------------------------------------------------------ bounds

\* Mutating calls (set, remove, compact) started over a run of several threads.
MaxOps == 2

\* Mutating calls started over a run of a single thread.
MaxSeqOps == 3

\* Opens after the first one (close-and-reopen, or restart after a stop) over
\* a run of a single thread.
MaxOpens == 2

\* Calls that meet an I/O error over a run.
MaxFails == 1

\* ------------------------------------------------------- program constants

\* kvs.rs:16 sets 4 * 1024 * 1024; scaled to the record sizes of the model
\* (a Set record is 9 or 10 bytes): one displaced 10-byte record reaches it,
\* one displaced 9-byte record does not, two displaced records do.
COMPACTION_THRESHOLD == 10

\* The capacity of the BufWriter that new_db_log wraps around the segment
\* file (std's default, 8 KiB), scaled so that it holds one record: the
\* second record copied by a compaction forces the first one out to the file.
BUF_CAPACITY == 12

\* ------------------------------------------------------------ the data

Keys == {<<"a">>, <<"b">>}
Values == {<<"x">>, <<"y", "y">>}
Threads == {"t1", "t2"}
\* t1 uses the handle returned by open, t2 a clone of it.
Original == "t1"
Writer == "writer"
None == "None"

\* enum Command
SetCmd(k, v) == [type |-> "Set", key |-> k, value |-> v]

RemoveCmd(k) == [type |-> "Remove", key |-> k]

\* impl From<(u64, Range<u64>)> for CommandOffset
CommandOffsetFrom_NoStart(gen, start, end) == [gen |-> gen, pos |-> start, len |-> end]

CommandOffsetFrom(gen, start, end) == [gen |-> gen, pos |-> start, len |-> end - start]

\* ------------------------------------------------ encoding and decoding

Quote(s) == <<"'">> \o s \o <<"'">>

\* serde_json::to_writer: a self-delimiting object per command, no separator.
to_writer(cmd) ==
    IF cmd.type = "Set"
    THEN <<"{", "S">> \o Quote(cmd.key) \o Quote(cmd.value) \o <<"}">>
    ELSE <<"{", "R">> \o Quote(cmd.key) \o <<"}">>

Fail == [ok |-> FALSE]

\* A quoted string starting at (1-based) place i of b.
ParseString(b, i) ==
    IF i <= Len(b) /\ b[i] = "'" /\ (\E j \in (i + 1)..Len(b) : b[j] = "'")
    THEN LET j == CHOOSE j \in (i + 1)..Len(b) :
                     /\ b[j] = "'"
                     /\ \A m \in (i + 1)..(j - 1) : b[m] # "'"
         IN [ok |-> TRUE, str |-> SubSeq(b, i + 1, j - 1), next |-> j + 1]
    ELSE Fail

\* One command starting at (1-based) place i of b; next is the place after it.
ParseCommand(b, i) ==
    IF ~(i + 1 <= Len(b) /\ b[i] = "{" /\ b[i + 1] \in {"S", "R"})
    THEN Fail
    ELSE LET k == ParseString(b, i + 2) IN
         IF ~k.ok THEN Fail
         ELSE IF b[i + 1] = "R"
         THEN IF k.next <= Len(b) /\ b[k.next] = "}"
              THEN [ok |-> TRUE, cmd |-> RemoveCmd(k.str), next |-> k.next + 1]
              ELSE Fail
         ELSE LET v == ParseString(b, k.next) IN
              IF ~v.ok THEN Fail
              ELSE IF v.next <= Len(b) /\ b[v.next] = "}"
              THEN [ok |-> TRUE, cmd |-> SetCmd(k.str, v.str), next |-> v.next + 1]
              ELSE Fail

\* serde_json::from_slice: the whole buffer is one command.
from_slice(buf) ==
    LET r == ParseCommand(buf, 1) IN
    IF r.ok /\ r.next = Len(buf) + 1 THEN [ok |-> TRUE, cmd |-> r.cmd] ELSE Fail

\* ----------------------------------------------------------- the index

EmptyIndex == [k \in {} |-> 0]

IndexInsert(idx, key, off) ==
    [k \in DOMAIN idx \cup {key} |-> IF k = key THEN off ELSE idx[k]]

IndexRemove(idx, key) == [k \in DOMAIN idx \ {key} |-> idx[k]]

\* load_index: replay one segment into the index.
RECURSIVE LoadFrom(_, _, _, _)
LoadFrom(gen, b, pos, idx) ==
    IF pos >= Len(b) THEN [ok |-> TRUE, index |-> idx]
    ELSE LET r == ParseCommand(b, pos + 1) IN
         IF ~r.ok THEN [ok |-> FALSE, index |-> idx]
         ELSE LET new_pos == r.next - 1 IN
              IF r.cmd.type = "Set"
              THEN LoadFrom(gen, b, new_pos,
                            IndexInsert(idx, r.cmd.key, CommandOffsetFrom(gen, pos, new_pos)))
              ELSE LoadFrom(gen, b, new_pos, IndexRemove(idx, r.cmd.key))

RECURSIVE LoadFrom_KeepRemoved(_, _, _, _)
LoadFrom_KeepRemoved(gen, b, pos, idx) ==
    IF pos >= Len(b) THEN [ok |-> TRUE, index |-> idx]
    ELSE LET r == ParseCommand(b, pos + 1) IN
         IF ~r.ok THEN [ok |-> FALSE, index |-> idx]
         ELSE LET new_pos == r.next - 1 IN
              IF r.cmd.type = "Set"
              THEN LoadFrom_KeepRemoved(gen, b, new_pos,
                            IndexInsert(idx, r.cmd.key, CommandOffsetFrom(gen, pos, new_pos)))
              ELSE LoadFrom_KeepRemoved(gen, b, new_pos, idx)

load_index_KeepRemoved(gen, bytes, idx) == LoadFrom_KeepRemoved(gen, bytes, 0, idx)

load_index(gen, bytes, idx) == LoadFrom(gen, bytes, 0, idx)

\* ------------------------------------------------- the segment directory

DigitChar == <<"0", "1", "2", "3", "4", "5", "6", "7", "8", "9">>

IsDigit(c) == \E d \in 1..10 : DigitChar[d] = c

DigitOf(c) == (CHOOSE d \in 1..10 : DigitChar[d] = c) - 1

\* format!("{}", gen)
RECURSIVE Decimal(_)
Decimal(n) == IF n < 10 THEN <<DigitChar[n + 1]>>
              ELSE Decimal(n \div 10) \o <<DigitChar[(n % 10) + 1]>>

\* db_path: the file name "<gen>.Error" inside the store directory.
db_path(gen) == Decimal(gen) \o <<".Error">>

\* str::trim_end_matches(".Error")
RECURSIVE TrimEnd(_)
TrimEnd(name) ==
    IF Len(name) > 0 /\ name[Len(name)] = ".Error"
    THEN TrimEnd(SubSeq(name, 1, Len(name) - 1))
    ELSE name

\* str::parse::<u64> of a digit string.
RECURSIVE ParseU64(_)
ParseU64(s) == IF Len(s) = 0 THEN 0
               ELSE ParseU64(SubSeq(s, 1, Len(s) - 1)) * 10 + DigitOf(s[Len(s)])

Parses(s) == Len(s) > 0 /\ \A i \in 1..Len(s) : IsDigit(s[i])

\* Vec::sort_unstable of the (distinct) generations.
RECURSIVE SortAsc(_)
SortAsc(S) == IF S = {} THEN <<>>
              ELSE LET m == CHOOSE x \in S : \A y \in S : x <= y
                   IN <<m>> \o SortAsc(S \ {m})

GenSet(d) ==
    {ParseU64(TrimEnd(n)) : n \in {m \in d : /\ Len(m) > 0
                                             /\ m[Len(m)] = ".Error"
                                             /\ Parses(TrimEnd(m))}}

\* generations: the generations of the files of directory d, ascending.
generations(d) == SortAsc(GenSet(d))

\* new_db_log: open with create (no truncate); a new file is empty.
CreateDir(d, gen) == d \cup {db_path(gen)}

CreateFs(d, f, gen) ==
    IF db_path(gen) \in d THEN f ELSE (db_path(gen) :> <<>>) @@ f

\* ------------------------------------------------------------ the state

VARIABLES
    dir,          \* names of the files linked in <path>/kvs.db
    fs,           \* file name -> the bytes the operating system holds for it
    opened,       \* whether the last KvStore::open returned Ok
    index,        \* KvStore.index: key -> CommandOffset
    iw,           \* the index RwLock is held exclusively
    ir,           \* the threads holding the index RwLock shared
    mutex,        \* the holder of the Mutex<KvStoreWriter>, or None
    current_gen,  \* KvStoreWriter.current_gen
    uncompacted,  \* KvStoreWriter.uncompacted
    wpos,         \* KvStoreWriter.writer.pos
    wbuf,         \* bytes KvStoreWriter.writer holds unflushed (after a failed flush)
    pools,        \* accessor -> generations with an open reader (KvStoreReader.readers)
    pc,           \* thread -> its place in the call it is running
    loc,          \* thread -> the call's arguments and locals
    ret,          \* thread -> the result the call is about to return
    cw_pos,       \* compact: compact_writer.pos
    cw_buf,       \* compact: bytes compact_writer holds unflushed
    todo,         \* compact: keys the index walk has not reached yet
    stale,        \* compact: stale_gens not unlinked yet
    model,        \* abstract map: key -> value, Absent when the key has none
    cstart,       \* the mapping get observed when the running compaction started
    gacc,         \* thread -> values its running get may return
    how,          \* how the directory was last opened: "open", "reopen", "stop"
    nops,         \* mutating calls started
    nopens,       \* opens after the first
    nfails        \* calls that met an I/O error

vars == <<dir, fs, opened, index, iw, ir, mutex, current_gen, uncompacted, wpos,
          pools, pc, loc, ret, cw_pos, cw_buf, todo, stale, model, cstart,
          gacc, nops, nopens, how, wbuf, nfails>>

Absent == <<>>

Accessors == Threads \cup {Writer}

IdleLoc == [op |-> "none", key |-> <<>>, value |-> <<>>, old |-> <<>>,
            off |-> [gen |-> 0, pos |-> 0, len |-> 0], pos |-> 0, compacted |-> FALSE]

NoRet == [kind |-> "none", value |-> <<>>]

Result(kind) == [kind |-> kind, value |-> <<>>]

Some(v) == [kind |-> "Some", value |-> v]

\* ------------------------------------------------------------ the readers

\* KvStoreReader::read followed by the closure of read_command, on directory
\* d with file contents f: the bytes of the range, or an error when the file
\* cannot be opened (it is not in the pool and not in the directory) or
\* read_exact meets the end of the file.
ReadRange(d, f, pool, off) ==
    IF off.gen \notin pool /\ db_path(off.gen) \notin d
    THEN [ok |-> FALSE, pool |-> pool, bytes |-> <<>>]
    ELSE LET bytes == f[db_path(off.gen)] IN
         IF Len(bytes) < off.pos + off.len
         THEN [ok |-> FALSE, pool |-> pool \cup {off.gen}, bytes |-> <<>>]
         ELSE [ok |-> TRUE, pool |-> pool \cup {off.gen},
               bytes |-> SubSeq(bytes, off.pos + 1, off.pos + off.len)]

\* The match of KvStore::get on what read_command returned: r the range
\* read, c the command decoded from it.
MatchCommand(r, c) ==
    IF ~r.ok \/ ~c.ok THEN Result("Err")
    ELSE IF c.cmd.type = "Set" THEN Some(c.cmd.value)
    ELSE Result("Panic")

\* KvStoreReader::read_command and the match of KvStore::get on its result.
GetCommand(d, f, pool, off) ==
    LET r == ReadRange(d, f, pool, off)
        c == IF r.ok THEN from_slice(r.bytes) ELSE Fail
    IN [res |-> MatchCommand(r, c), pool |-> r.pool]

\* ------------------------------------------------------------------ open

\* The loop of KvStore::open over the generations: File::open and load_index.
RECURSIVE Replay(_, _, _, _)
Replay(d, f, gens, idx) ==
    IF gens = <<>> THEN [ok |-> TRUE, index |-> idx]
    ELSE IF db_path(Head(gens)) \notin d THEN [ok |-> FALSE, index |-> idx]
    ELSE LET r == load_index(Head(gens), f[db_path(Head(gens))], idx) IN
         IF ~r.ok THEN r ELSE Replay(d, f, Tail(gens), r.index)

NextGen_Count(gens) == Len(gens) + 1

NextGen_Reuse(gens) == IF gens = <<>> THEN 1 ELSE gens[Len(gens)]

\* gens.last().unwrap_or(&0) + 1
NextGen(gens) == (IF gens = <<>> THEN 0 ELSE gens[Len(gens)]) + 1

SeqRange(s) == {s[i] : i \in 1..Len(s)}

\* KvStore::open on directory d with file contents f.
OpenResult(d, f) ==
    LET gens == generations(d)
        r == Replay(d, f, gens, EmptyIndex)
        g == NextGen(gens)
    IN IF ~r.ok
       THEN [ok |-> FALSE, index |-> EmptyIndex, dir |-> d, fs |-> f,
             current_gen |-> 0, wpos |-> 0, pool |-> {}]
       ELSE [ok |-> TRUE, index |-> r.index, dir |-> CreateDir(d, g),
             fs |-> CreateFs(d, f, g), current_gen |-> g,
             wpos |-> Len(CreateFs(d, f, g)[db_path(g)]),
             pool |-> SeqRange(gens) \cup {g}]

\* What get returns for key k through a fresh accessor, given the index, the
\* directory and the file contents.
Lookup(idx, d, f, k) ==
    IF k \notin DOMAIN idx THEN Result("None")
    ELSE GetCommand(d, f, {}, idx[k]).res

ValueOf(r) == IF r.kind = "Some" THEN r.value
              ELSE IF r.kind = "None" THEN Absent ELSE <<"!">>

MappingOf(idx, d, f) == [k \in Keys |-> ValueOf(Lookup(idx, d, f, k))]

\* The key -> value mapping get observes in the current state.
Mapping == MappingOf(index, dir, fs)

\* The state an open leaves, all threads outside any call.
Opening(d, f, keepModel) ==
    \E o \in {OpenResult(d, [n \in d |-> f[n]])} :
    /\ dir' = o.dir
    /\ fs' = o.fs
    /\ opened' = o.ok
    /\ index' = o.index
    /\ iw' = FALSE
    /\ ir' = {}
    /\ mutex' = None
    /\ current_gen' = o.current_gen
    /\ uncompacted' = 0
    /\ wpos' = o.wpos
    /\ wbuf' = <<>>
    /\ pools' = [a \in Accessors |-> IF a = Original THEN o.pool ELSE {}]
    /\ pc' = [t \in Threads |-> "idle"]
    /\ loc' = [t \in Threads |-> IdleLoc]
    /\ ret' = [t \in Threads |-> NoRet]
    /\ cw_pos' = 0
    /\ cw_buf' = <<>>
    /\ todo' = {}
    /\ stale' = <<>>
    /\ model' = IF keepModel THEN model ELSE MappingOf(o.index, o.dir, o.fs)
    /\ cstart' = [k \in Keys |-> Absent]
    /\ gacc' = [t \in Threads |-> {}]

Init ==
    LET o == OpenResult({}, <<>>) IN
    /\ dir = o.dir
    /\ fs = o.fs
    /\ opened = o.ok
    /\ index = o.index
    /\ iw = FALSE
    /\ ir = {}
    /\ mutex = None
    /\ current_gen = o.current_gen
    /\ uncompacted = 0
    /\ wpos = o.wpos
    /\ wbuf = <<>>
    /\ pools = [a \in Accessors |-> IF a = Original THEN o.pool ELSE {}]
    /\ pc = [t \in Threads |-> "idle"]
    /\ loc = [t \in Threads |-> IdleLoc]
    /\ ret = [t \in Threads |-> NoRet]
    /\ cw_pos = 0
    /\ cw_buf = <<>>
    /\ todo = {}
    /\ stale = <<>>
    /\ model = [k \in Keys |-> Absent]
    /\ cstart = [k \in Keys |-> Absent]
    /\ gacc = [t \in Threads |-> {}]
    /\ how = "open"
    /\ nops = 0
    /\ nopens = 0
    /\ nfails = 0

\* ------------------------------------------------------------- helpers

Append2(f, gen, bytes) == [f EXCEPT ![db_path(gen)] = @ \o bytes]

\* BufWriter::write of one record into a writer holding buf unflushed:
\* what reaches the file now, and what stays buffered.
BufWrite(buf, bytes) ==
    LET spill == Len(buf) + Len(bytes) > BUF_CAPACITY
        held == IF spill THEN <<>> ELSE buf
        out == IF spill THEN buf ELSE <<>>
    IN IF Len(bytes) >= BUF_CAPACITY
       THEN [file |-> out \o bytes, buf |-> held]
       ELSE [file |-> out, buf |-> held \o bytes]

\* The value written by the last write to key k that has returned: the value
\* the key had when the set or remove now running on k (if any) took the mutex.
LastReturned(k) ==
    IF \E t \in Threads : loc[t].op \in {"set", "remove"} /\ loc[t].key = k
    THEN loc[CHOOSE t \in Threads : loc[t].op \in {"set", "remove"} /\ loc[t].key = k].old
    ELSE model[k]

\* A write to key k took effect in the index with value v (Absent: a remove).
Applied(k, v) ==
    /\ model' = [model EXCEPT ![k] = v]
    /\ gacc' = [u \in Threads |->
                  IF pc[u] = "get_read" /\ loc[u].key = k THEN gacc[u] \cup {v}
                  ELSE gacc[u]]

\* self.uncompacted >= COMPACTION_THRESHOLD, the test that set and remove make
\* after updating the index.
Triggers(n) == n >= COMPACTION_THRESHOLD

CompactVars == <<cw_pos, cw_buf, todo, stale>>

\* --------------------------------------------------------------- get

\* KvStore::get, lines 136-137 and 144-146: take the index lock shared and
\* look the key up; an absent key is Ok(None).
GetLookup(t, k) ==
    /\ opened
    /\ pc[t] = "idle"
    /\ ~iw
    /\ ir' = ir \cup {t}
    /\ gacc' = [gacc EXCEPT ![t] = {LastReturned(k), model[k]}]
    /\ IF k \in DOMAIN index
       THEN /\ pc' = [pc EXCEPT ![t] = "get_read"]
            /\ loc' = [loc EXCEPT ![t] = [IdleLoc EXCEPT !.op = "get", !.key = k,
                                                         !.off = index[k]]]
            /\ ret' = ret
       ELSE /\ pc' = [pc EXCEPT ![t] = "done"]
            /\ loc' = [loc EXCEPT ![t] = [IdleLoc EXCEPT !.op = "get", !.key = k]]
            /\ ret' = [ret EXCEPT ![t] = Result("None")]
    /\ UNCHANGED <<dir, fs, opened, index, iw, mutex, current_gen, uncompacted,
                   wpos, pools, CompactVars, model, cstart, nops, nopens, how, wbuf, nfails>>

\* KvStore::get, lines 138-143: read and decode the command at the offset.
GetRead(t) ==
    /\ pc[t] = "get_read"
    /\ \E r \in {ReadRange(dir, fs, pools[t], loc[t].off)} :
       \E c \in {IF r.ok THEN from_slice(r.bytes) ELSE Fail} :
          /\ pools' = [pools EXCEPT ![t] = r.pool]
          /\ ret' = [ret EXCEPT ![t] = MatchCommand(r, c)]
    /\ pc' = [pc EXCEPT ![t] = "done"]
    /\ UNCHANGED <<dir, fs, opened, index, iw, ir, mutex, current_gen, uncompacted,
                   wpos, loc, CompactVars, model, cstart, gacc,
                   nops, nopens, how, wbuf, nfails>>

\* -------------------------------------------------------------- set

\* A set that does not take the writer mutex.
SetAppend_NoLock(t, k, v) ==
    /\ opened
    /\ pc[t] = "idle"
    /\ nops' = nops + 1
    /\ mutex' = mutex
    /\ fs' = Append2(fs, current_gen, wbuf \o to_writer(SetCmd(k, v)))
    /\ wbuf' = <<>>
    /\ wpos' = wpos + Len(to_writer(SetCmd(k, v)))
    /\ loc' = [loc EXCEPT ![t] = [IdleLoc EXCEPT !.op = "set", !.key = k, !.value = v,
                                                 !.old = model[k], !.pos = wpos]]
    /\ pc' = [pc EXCEPT ![t] = "set_index"]
    /\ UNCHANGED <<dir, opened, index, iw, ir, current_gen, uncompacted, pools, ret,
                   CompactVars, model, cstart, gacc, nopens, how, nfails>>

\* A set whose writer was left on the compaction segment.
SetAppend_Behind(t, k, v) ==
    /\ opened
    /\ pc[t] = "idle"
    /\ mutex = None
    /\ nops' = nops + 1
    /\ mutex' = t
    /\ LET gen == IF db_path(current_gen - 1) \in dir THEN current_gen - 1
                  ELSE current_gen
       IN fs' = Append2(fs, gen, wbuf \o to_writer(SetCmd(k, v)))
    /\ wbuf' = <<>>
    /\ wpos' = wpos + Len(to_writer(SetCmd(k, v)))
    /\ loc' = [loc EXCEPT ![t] = [IdleLoc EXCEPT !.op = "set", !.key = k, !.value = v,
                                                 !.old = model[k], !.pos = wpos]]
    /\ pc' = [pc EXCEPT ![t] = "set_index"]
    /\ UNCHANGED <<dir, opened, index, iw, ir, current_gen, uncompacted, pools, ret,
                   CompactVars, model, cstart, gacc, nopens, how, nfails>>

\* KvStore::set taking the writer mutex, and KvStoreWriter::set lines 299-306:
\* encode the command into the active segment and flush.
SetAppend(t, k, v) ==
    /\ opened
    /\ pc[t] = "idle"
    /\ mutex = None
    /\ nops' = nops + 1
    /\ mutex' = t
    /\ fs' = Append2(fs, current_gen, wbuf \o to_writer(SetCmd(k, v)))
    /\ wbuf' = <<>>
    /\ wpos' = wpos + Len(to_writer(SetCmd(k, v)))
    /\ loc' = [loc EXCEPT ![t] = [IdleLoc EXCEPT !.op = "set", !.key = k, !.value = v,
                                                 !.old = model[k], !.pos = wpos]]
    /\ pc' = [pc EXCEPT ![t] = "set_index"]
    /\ UNCHANGED <<dir, opened, index, iw, ir, current_gen, uncompacted, pools, ret,
                   CompactVars, model, cstart, gacc, nopens, how, nfails>>

\* KvStoreWriter::set lines 308-319: insert the offset under the exclusive
\* index lock, count the displaced record, test the threshold.
SetIndex(t) ==
    /\ pc[t] = "set_index"
    /\ ir = {}
    /\ LET k == loc[t].key
           offset == CommandOffsetFrom(current_gen, loc[t].pos, wpos)
           unc == IF k \in DOMAIN index THEN uncompacted + index[k].len
                  ELSE uncompacted
       IN /\ index' = IndexInsert(index, k, offset)
          /\ uncompacted' = unc
          /\ Applied(k, loc[t].value)
          /\ IF Triggers(unc)
             THEN /\ pc' = [pc EXCEPT ![t] = "c_create1"]
                  /\ loc' = [loc EXCEPT ![t].compacted = TRUE]
                  /\ cstart' = MappingOf(index', dir, fs)
                  /\ ret' = ret
             ELSE /\ pc' = [pc EXCEPT ![t] = "done"]
                  /\ ret' = [ret EXCEPT ![t] = Result("Ok")]
                  /\ UNCHANGED <<loc, cstart>>
    /\ UNCHANGED <<dir, fs, opened, iw, ir, mutex, current_gen, wpos, pools,
                   CompactVars, nops, nopens, how, wbuf, nfails>>

\* ------------------------------------------------------------ remove

\* A remove that appends its command before it looks the key up.
RemoveAppend_WriteFirst(t, k) ==
    /\ opened
    /\ pc[t] = "idle"
    /\ mutex = None
    /\ ~iw
    /\ nops' = nops + 1
    /\ mutex' = t
    /\ loc' = [loc EXCEPT ![t] = [IdleLoc EXCEPT !.op = "remove", !.key = k,
                                                 !.old = model[k]]]
    /\ fs' = Append2(fs, current_gen, wbuf \o to_writer(RemoveCmd(k)))
    /\ wbuf' = <<>>
    /\ wpos' = wpos + Len(to_writer(RemoveCmd(k)))
    /\ IF k \notin DOMAIN index
       THEN /\ pc' = [pc EXCEPT ![t] = "done"]
            /\ ret' = [ret EXCEPT ![t] = Result("KeyNotFound")]
       ELSE /\ pc' = [pc EXCEPT ![t] = "rm_index"]
            /\ ret' = ret
    /\ UNCHANGED <<dir, opened, index, iw, ir, current_gen, uncompacted, pools,
                   CompactVars, model, cstart, gacc, nopens, how, nfails>>

\* A remove that keeps the shared index lock of its lookup while it goes on.
RemoveAppend_HoldsRead(t, k) ==
    /\ opened
    /\ pc[t] = "idle"
    /\ mutex = None
    /\ ~iw
    /\ nops' = nops + 1
    /\ mutex' = t
    /\ ir' = ir \cup {t}
    /\ loc' = [loc EXCEPT ![t] = [IdleLoc EXCEPT !.op = "remove", !.key = k,
                                                 !.old = model[k]]]
    /\ IF k \notin DOMAIN index
       THEN /\ pc' = [pc EXCEPT ![t] = "done"]
            /\ ret' = [ret EXCEPT ![t] = Result("KeyNotFound")]
            /\ UNCHANGED <<fs, wpos, wbuf>>
       ELSE /\ pc' = [pc EXCEPT ![t] = "rm_index"]
            /\ fs' = Append2(fs, current_gen, wbuf \o to_writer(RemoveCmd(k)))
            /\ wbuf' = <<>>
            /\ wpos' = wpos + Len(to_writer(RemoveCmd(k)))
            /\ ret' = ret
    /\ UNCHANGED <<dir, opened, index, iw, current_gen, uncompacted, pools,
                   CompactVars, model, cstart, gacc, nopens, how, nfails>>

\* KvStore::remove taking the writer mutex, and KvStoreWriter::remove lines
\* 325-331: KeyNotFound for a key the index does not hold, else encode the
\* Remove command into the active segment and flush.
RemoveAppend(t, k) ==
    /\ opened
    /\ pc[t] = "idle"
    /\ mutex = None
    /\ ~iw
    /\ nops' = nops + 1
    /\ mutex' = t
    /\ loc' = [loc EXCEPT ![t] = [IdleLoc EXCEPT !.op = "remove", !.key = k,
                                                 !.old = model[k]]]
    /\ IF k \notin DOMAIN index
       THEN /\ pc' = [pc EXCEPT ![t] = "done"]
            /\ ret' = [ret EXCEPT ![t] = Result("KeyNotFound")]
            /\ UNCHANGED <<fs, wpos, wbuf>>
       ELSE /\ pc' = [pc EXCEPT ![t] = "rm_index"]
            /\ fs' = Append2(fs, current_gen, wbuf \o to_writer(RemoveCmd(k)))
            /\ wbuf' = <<>>
            /\ wpos' = wpos + Len(to_writer(RemoveCmd(k)))
            /\ ret' = ret
    /\ UNCHANGED <<dir, opened, index, iw, ir, current_gen, uncompacted, pools,
                   CompactVars, model, cstart, gacc, nopens, how, nfails>>

\* KvStoreWriter::remove lines 333-343: remove the key under the exclusive
\* index lock, count the displaced record, test the threshold.
RemoveIndex(t) ==
    /\ pc[t] = "rm_index"
    /\ ir = {}
    /\ LET k == loc[t].key
           unc == uncompacted + index[k].len
       IN /\ index' = IndexRemove(index, k)
          /\ uncompacted' = unc
          /\ Applied(k, Absent)
          /\ IF Triggers(unc)
             THEN /\ pc' = [pc EXCEPT ![t] = "c_create1"]
                  /\ loc' = [loc EXCEPT ![t].compacted = TRUE]
                  /\ cstart' = MappingOf(index', dir, fs)
                  /\ ret' = ret
             ELSE /\ pc' = [pc EXCEPT ![t] = "done"]
                  /\ ret' = [ret EXCEPT ![t] = Result("Ok")]
                  /\ UNCHANGED <<loc, cstart>>
    /\ UNCHANGED <<dir, fs, opened, iw, ir, mutex, current_gen, wpos, pools,
                   CompactVars, nops, nopens, how, wbuf, nfails>>

\* ------------------------------------------------- failed writes

\* The outcomes of serde_json::to_writer followed by flush on a writer that
\* holds buf unflushed, when one of the two returns an I/O error: adv bytes
\* of the record were accepted by the writer (pos advanced by adv), file is
\* what reached the segment file, buf what the BufWriter still holds. All
\* bytes accepted and all written is the successful outcome, not listed here.
WriteFails(buf, rec) ==
    {[adv |-> j,
      file |-> SubSeq(buf \o SubSeq(rec, 1, j), 1, m),
      buf |-> SubSeq(buf \o SubSeq(rec, 1, j), m + 1, Len(buf) + j)] :
        <<j, m>> \in {jm \in (0..Len(rec)) \X (0..(Len(buf) + Len(rec))) :
                         /\ jm[2] <= Len(buf) + jm[1]
                         /\ ~(jm[1] = Len(rec) /\ jm[2] = Len(buf) + Len(rec))}}

\* A set that updates the index before its record is written.
SetFail_IndexFirst(t, k, v) ==
    /\ opened
    /\ pc[t] = "idle"
    /\ mutex = None
    /\ nops' = nops + 1
    /\ nfails' = nfails + 1
    /\ mutex' = t
    /\ \E w \in WriteFails(wbuf, to_writer(SetCmd(k, v))) :
          /\ fs' = Append2(fs, current_gen, w.file)
          /\ wbuf' = w.buf
          /\ wpos' = wpos + w.adv
    /\ index' = IndexInsert(index, k,
                   CommandOffsetFrom(current_gen, wpos,
                                     wpos + Len(to_writer(SetCmd(k, v)))))
    /\ loc' = [loc EXCEPT ![t] = [IdleLoc EXCEPT !.op = "set", !.key = k, !.value = v,
                                                 !.old = model[k], !.pos = wpos]]
    /\ ret' = [ret EXCEPT ![t] = Result("Err")]
    /\ pc' = [pc EXCEPT ![t] = "done"]
    /\ UNCHANGED <<dir, opened, iw, ir, current_gen, uncompacted, pools,
                   CompactVars, model, cstart, gacc, nopens, how>>

\* KvStore::set taking the writer mutex, and KvStoreWriter::set lines 299-306
\* when to_writer or flush returns an error: the ? returns it before the
\* index is touched.
SetFail(t, k, v) ==
    /\ opened
    /\ pc[t] = "idle"
    /\ mutex = None
    /\ nops' = nops + 1
    /\ nfails' = nfails + 1
    /\ mutex' = t
    /\ \E w \in WriteFails(wbuf, to_writer(SetCmd(k, v))) :
          /\ fs' = Append2(fs, current_gen, w.file)
          /\ wbuf' = w.buf
          /\ wpos' = wpos + w.adv
    /\ loc' = [loc EXCEPT ![t] = [IdleLoc EXCEPT !.op = "set", !.key = k, !.value = v,
                                                 !.old = model[k], !.pos = wpos]]
    /\ ret' = [ret EXCEPT ![t] = Result("Err")]
    /\ pc' = [pc EXCEPT ![t] = "done"]
    /\ UNCHANGED <<dir, opened, index, iw, ir, current_gen, uncompacted, pools,
                   CompactVars, model, cstart, gacc, nopens, how>>

\* KvStore::remove taking the writer mutex, and KvStoreWriter::remove lines
\* 325-331 for a key the index holds, when to_writer or flush returns an
\* error: the ? returns it before the index is touched.
RemoveFail(t, k) ==
    /\ opened
    /\ pc[t] = "idle"
    /\ mutex = None
    /\ ~iw
    /\ k \in DOMAIN index
    /\ nops' = nops + 1
    /\ nfails' = nfails + 1
    /\ mutex' = t
    /\ \E w \in WriteFails(wbuf, to_writer(RemoveCmd(k))) :
          /\ fs' = Append2(fs, current_gen, w.file)
          /\ wbuf' = w.buf
          /\ wpos' = wpos + w.adv
    /\ loc' = [loc EXCEPT ![t] = [IdleLoc EXCEPT !.op = "remove", !.key = k,
                                                 !.old = model[k]]]
    /\ ret' = [ret EXCEPT ![t] = Result("Err")]
    /\ pc' = [pc EXCEPT ![t] = "done"]
    /\ UNCHANGED <<dir, opened, index, iw, ir, current_gen, uncompacted, pools,
                   CompactVars, model, cstart, gacc, nopens, how>>

\* ----------------------------------------------------------- compact

\* KvStore::compact taking the writer mutex.
CompactStart(t) ==
    /\ opened
    /\ pc[t] = "idle"
    /\ mutex = None
    /\ nops' = nops + 1
    /\ mutex' = t
    /\ loc' = [loc EXCEPT ![t] = [IdleLoc EXCEPT !.op = "compact", !.compacted = TRUE]]
    /\ pc' = [pc EXCEPT ![t] = "c_create1"]
    /\ cstart' = Mapping
    /\ UNCHANGED <<dir, fs, opened, index, iw, ir, current_gen, uncompacted, wpos,
                   pools, ret, CompactVars, model, gacc, nopens, how, wbuf, nfails>>

\* KvStoreWriter::compact lines 350-351: create the compaction segment.
CompactCreate1(t) ==
    /\ pc[t] = "c_create1"
    /\ dir' = CreateDir(dir, current_gen + 1)
    /\ fs' = CreateFs(dir, fs, current_gen + 1)
    /\ pc' = [pc EXCEPT ![t] = "c_create2"]
    /\ UNCHANGED <<opened, index, iw, ir, mutex, current_gen, uncompacted, wpos,
                   pools, loc, ret, CompactVars, model, cstart, gacc,
                   nops, nopens, how, wbuf, nfails>>

\* KvStoreWriter::compact lines 352-360: create the new active segment, move
\* the writer to it and register both readers. The assignment to self.writer
\* drops the old writer, whose BufWriter writes what it can of the bytes a
\* failed flush left in it and ignores the error.
CompactCreate2(t) ==
    /\ pc[t] = "c_create2"
    /\ dir' = CreateDir(dir, current_gen + 2)
    /\ \E m \in 0..Len(wbuf) :
          fs' = CreateFs(dir, Append2(fs, current_gen, SubSeq(wbuf, 1, m)),
                         current_gen + 2)
    /\ wbuf' = <<>>
    /\ cw_pos' = Len(fs[db_path(current_gen + 1)])
    /\ cw_buf' = <<>>
    /\ current_gen' = current_gen + 2
    /\ wpos' = Len(fs'[db_path(current_gen + 2)])
    /\ pools' = [pools EXCEPT ![Writer] = @ \cup {current_gen + 1, current_gen + 2}]
    /\ pc' = [pc EXCEPT ![t] = "c_lock"]
    /\ UNCHANGED <<opened, index, iw, ir, mutex, uncompacted, loc, ret, todo, stale,
                   model, cstart, gacc, nops, nopens, how, nfails>>

\* A walk that starts while gets still hold the index lock shared.
CompactLock_NoWait(t) ==
    /\ pc[t] = "c_lock"
    /\ ~iw
    /\ iw' = TRUE
    /\ todo' = DOMAIN index
    /\ pc' = [pc EXCEPT ![t] = "c_copy"]
    /\ UNCHANGED <<dir, fs, opened, index, ir, mutex, current_gen, uncompacted, wpos,
                   pools, loc, ret, cw_pos, cw_buf, stale, model, cstart,
                   gacc, nops, nopens, how, wbuf, nfails>>

\* KvStoreWriter::compact line 362: take the index lock exclusively and start
\* the walk over the entries.
CompactLock(t) ==
    /\ pc[t] = "c_lock"
    /\ ir = {}
    /\ ~iw
    /\ iw' = TRUE
    /\ todo' = DOMAIN index
    /\ pc' = [pc EXCEPT ![t] = "c_copy"]
    /\ UNCHANGED <<dir, fs, opened, index, ir, mutex, current_gen, uncompacted, wpos,
                   pools, loc, ret, cw_pos, cw_buf, stale, model, cstart,
                   gacc, nops, nopens, how, wbuf, nfails>>

\* The entry of a copied record: *pos = compact_writer.pos; *gen = current_gen - 1.
Redirect_KeepPos(off, gen, pos) == [off EXCEPT !.gen = gen]

Redirect(off, gen, pos) == [off EXCEPT !.gen = gen, !.pos = pos]

\* KvStoreWriter::compact lines 362-377: one turn of the walk (the entries in
\* any order): read the record, redirect the entry, write the record to
\* compact_writer. The lock is released when the walk ends; a failed read
\* returns the error, dropping the lock and compact_writer (which flushes).
CompactCopy(t) ==
    /\ pc[t] = "c_copy"
    /\ IF todo = {}
       THEN /\ iw' = FALSE
            /\ pc' = [pc EXCEPT ![t] = "c_flush"]
            /\ UNCHANGED <<fs, index, pools, ret, cw_pos, cw_buf, todo>>
       ELSE \E k \in todo :
            LET r == ReadRange(dir, fs, pools[Writer], index[k]) IN
            /\ pools' = [pools EXCEPT ![Writer] = r.pool]
            /\ IF r.ok
               THEN LET w == BufWrite(cw_buf, r.bytes) IN
                    /\ index' = [index EXCEPT
                                   ![k] = Redirect(@, current_gen - 1, cw_pos)]
                    /\ fs' = Append2(fs, current_gen - 1, w.file)
                    /\ cw_buf' = w.buf
                    /\ cw_pos' = cw_pos + Len(r.bytes)
                    /\ todo' = todo \ {k}
                    /\ UNCHANGED <<iw, pc, ret>>
               ELSE /\ fs' = Append2(fs, current_gen - 1, cw_buf)
                    /\ cw_buf' = <<>>
                    /\ todo' = {}
                    /\ iw' = FALSE
                    /\ pc' = [pc EXCEPT ![t] = "done"]
                    /\ ret' = [ret EXCEPT ![t] = Result("Err")]
                    /\ UNCHANGED <<index, cw_pos>>
    /\ UNCHANGED <<dir, opened, ir, mutex, current_gen, uncompacted, wpos, loc,
                   stale, model, cstart, gacc, nops, nopens, how, wbuf, nfails>>

\* The filter of lines 380-383 on the listed generations.
StaleGens_Strict(gens) == SelectSeq(gens, LAMBDA g : g < current_gen - 2)

StaleGens_Reversed(gens) ==
    LET st == SelectSeq(gens, LAMBDA g : g <= current_gen - 2)
    IN [i \in 1..Len(st) |-> st[Len(st) + 1 - i]]

StaleGens(gens) == SelectSeq(gens, LAMBDA g : g <= current_gen - 2)

\* KvStoreWriter::compact lines 378-383: flush the compaction segment and
\* list the stale generations.
CompactFlush(t) ==
    /\ pc[t] = "c_flush"
    /\ fs' = Append2(fs, current_gen - 1, cw_buf)
    /\ cw_buf' = <<>>
    /\ stale' = StaleGens(generations(dir))
    /\ pc' = [pc EXCEPT ![t] = "c_unlink"]
    /\ UNCHANGED <<dir, opened, index, iw, ir, mutex, current_gen, uncompacted, wpos,
                   pools, loc, ret, cw_pos, todo, model, cstart, gacc,
                   nops, nopens, how, wbuf, nfails>>

\* fs::remove_file: the name goes; the bytes stay for the readers that hold
\* the file open, and are freed when no pool holds one.
Unlinked(f, ps, gen) ==
    IF \E a \in Accessors : gen \in ps[a] THEN f
    ELSE [n \in DOMAIN f \ {db_path(gen)} |-> f[n]]

\* KvStoreWriter::compact lines 385-391: drop the reader of the next stale
\* generation and unlink its file; Ok(()) after the last one.
CompactUnlink(t) ==
    /\ pc[t] = "c_unlink"
    /\ IF stale = <<>>
       THEN /\ pc' = [pc EXCEPT ![t] = "done"]
            /\ ret' = [ret EXCEPT ![t] = Result("Ok")]
            /\ UNCHANGED <<dir, fs, pools, stale>>
       ELSE /\ pools' = [pools EXCEPT ![Writer] = @ \ {Head(stale)}]
            /\ dir' = dir \ {db_path(Head(stale))}
            /\ fs' = Unlinked(fs, pools', Head(stale))
            /\ stale' = Tail(stale)
            /\ UNCHANGED <<pc, ret>>
    /\ UNCHANGED <<opened, index, iw, ir, mutex, current_gen, uncompacted, wpos,
                   loc, cw_pos, cw_buf, todo, model, cstart, gacc,
                   nops, nopens, how, wbuf, nfails>>

\* KvStoreWriter::compact lines 362-369 when the seek or the read of a record
\* fails with an I/O error inside the closure, before the entry is touched:
\* the ? returns the error, dropping the lock and compact_writer, whose
\* BufWriter writes what it can of its buffer and ignores the error.
CompactReadFail(t) ==
    /\ pc[t] = "c_copy"
    /\ nfails' = nfails + 1
    /\ \E k \in todo :
       \E r \in {ReadRange(dir, fs, pools[Writer], index[k])} :
          /\ r.ok
          /\ pools' = [pools EXCEPT ![Writer] = r.pool]
    /\ \E m \in 0..Len(cw_buf) :
          fs' = Append2(fs, current_gen - 1, SubSeq(cw_buf, 1, m))
    /\ cw_buf' = <<>>
    /\ todo' = {}
    /\ iw' = FALSE
    /\ pc' = [pc EXCEPT ![t] = "done"]
    /\ ret' = [ret EXCEPT ![t] = Result("Err")]
    /\ UNCHANGED <<dir, opened, index, ir, mutex, current_gen, uncompacted, wpos,
                   loc, cw_pos, stale, model, cstart, gacc, nops, nopens, how, wbuf>>

\* KvStoreWriter::compact lines 362-376 when write_all fails with an I/O
\* error: the record was read and the closure has redirected its entry (lines
\* 370-371); the write has to reach the file (the BufWriter is full, or the
\* record is as large as its buffer) and not all of it does. The ? returns
\* the error, dropping the lock and compact_writer, whose BufWriter writes
\* what it can of its buffer and ignores the error.
CompactWriteFail(t) ==
    /\ pc[t] = "c_copy"
    /\ nfails' = nfails + 1
    /\ \E k \in todo :
       \E r \in {ReadRange(dir, fs, pools[Writer], index[k])} :
       \E w \in {BufWrite(cw_buf, r.bytes)} :
          /\ r.ok
          /\ w.file # <<>>
          /\ pools' = [pools EXCEPT ![Writer] = r.pool]
          /\ index' = [index EXCEPT ![k] = Redirect(@, current_gen - 1, cw_pos)]
          /\ \E m \in 0..Len(w.file) :
                /\ Len(r.bytes) >= BUF_CAPACITY => m < Len(w.file)
                /\ fs' = Append2(fs, current_gen - 1, SubSeq(w.file, 1, m))
    /\ cw_buf' = <<>>
    /\ todo' = {}
    /\ iw' = FALSE
    /\ pc' = [pc EXCEPT ![t] = "done"]
    /\ ret' = [ret EXCEPT ![t] = Result("Err")]
    /\ UNCHANGED <<dir, opened, ir, mutex, current_gen, uncompacted, wpos,
                   loc, cw_pos, stale, model, cstart, gacc, nops, nopens, how, wbuf>>

\* KvStoreWriter::compact line 378 when the flush of compact_writer fails with
\* an I/O error: every entry is redirected and the lock is released; the ?
\* returns the error and drops compact_writer, whose BufWriter writes what it
\* can of the rest and ignores the error.
CompactFlushFail(t) ==
    /\ pc[t] = "c_flush"
    /\ cw_buf # <<>>
    /\ nfails' = nfails + 1
    /\ \E m \in 0..Len(cw_buf) :
          fs' = Append2(fs, current_gen - 1, SubSeq(cw_buf, 1, m))
    /\ cw_buf' = <<>>
    /\ pc' = [pc EXCEPT ![t] = "done"]
    /\ ret' = [ret EXCEPT ![t] = Result("Err")]
    /\ UNCHANGED <<dir, opened, index, iw, ir, mutex, current_gen, uncompacted, wpos,
                   pools, loc, cw_pos, todo, stale, model, cstart, gacc,
                   nops, nopens, how, wbuf>>

\* KvStoreWriter::compact lines 385-389 when fs::remove_file fails with an I/O
\* error: the reader of the generation is dropped, the file stays, and the ?
\* returns the error with the later stale generations untouched.
CompactUnlinkFail(t) ==
    /\ pc[t] = "c_unlink"
    /\ stale # <<>>
    /\ nfails' = nfails + 1
    /\ pools' = [pools EXCEPT ![Writer] = @ \ {Head(stale)}]
    /\ stale' = <<>>
    /\ pc' = [pc EXCEPT ![t] = "done"]
    /\ ret' = [ret EXCEPT ![t] = Result("Err")]
    /\ UNCHANGED <<dir, fs, opened, index, iw, ir, mutex, current_gen, uncompacted,
                   wpos, loc, cw_pos, cw_buf, todo, model, cstart, gacc,
                   nops, nopens, how, wbuf>>

\* ------------------------------------------------------------- return

\* The call returns: its guards (the writer mutex, the shared index lock) drop.
Return(t) ==
    /\ pc[t] = "done"
    /\ pc' = [pc EXCEPT ![t] = "idle"]
    /\ mutex' = IF mutex = t THEN None ELSE mutex
    /\ ir' = ir \ {t}
    /\ loc' = [loc EXCEPT ![t] = IdleLoc]
    /\ ret' = [ret EXCEPT ![t] = NoRet]
    /\ gacc' = [gacc EXCEPT ![t] = {}]
    /\ cw_pos' = IF loc[t].compacted THEN 0 ELSE cw_pos
    /\ cstart' = IF loc[t].compacted THEN [k \in Keys |-> Absent] ELSE cstart
    /\ UNCHANGED <<dir, fs, opened, index, iw, current_gen, uncompacted, wpos, pools,
                   cw_buf, todo, stale, model, nops, nopens, how, wbuf, nfails>>

\* ------------------------------------------------- close, stop, open

Quiescent == \A t \in Threads : pc[t] = "idle"

\* Every handle is dropped with no call running (the writer's BufWriter then
\* writes what it can of the bytes a failed flush left in it), and the
\* directory is opened again (KvStore::open).
Reopen ==
    /\ Quiescent
    /\ nopens' = nopens + 1
    /\ nops' = nops
    /\ how' = "reopen"
    /\ nfails' = nfails
    /\ \E m \in 0..Len(wbuf) :
          Opening(dir, Append2(fs, current_gen, SubSeq(wbuf, 1, m)), TRUE)

\* The process stops while a set, remove or compact is running: what its
\* writers hold unflushed is lost, and so is every file that was unlinked; the
\* directory is then opened again (KvStore::open).
Crash ==
    /\ mutex # None
    /\ nopens' = nopens + 1
    /\ nops' = nops
    /\ how' = "stop"
    /\ nfails' = nfails
    /\ Opening(dir, fs, FALSE)

\* The model's bounds on a run.
MayWrite == nops < MaxOps

MayOpen == nopens < MaxOpens

Next ==
    \/ \E t \in Threads, k \in Keys : GetLookup(t, k)
    \/ \E t \in Threads : GetRead(t)
    \/ \E t \in Threads, k \in Keys, v \in Values : MayWrite /\ SetAppend(t, k, v)
    \/ \E t \in Threads : SetIndex(t)
    \/ \E t \in Threads, k \in Keys : MayWrite /\ RemoveAppend(t, k)
    \/ \E t \in Threads : RemoveIndex(t)
    \/ \E t \in Threads : MayWrite /\ CompactStart(t)
    \/ \E t \in Threads : CompactCreate1(t)
    \/ \E t \in Threads : CompactCreate2(t)
    \/ \E t \in Threads : CompactLock(t)
    \/ \E t \in Threads : CompactCopy(t)
    \/ \E t \in Threads : CompactFlush(t)
    \/ \E t \in Threads : CompactUnlink(t)
    \/ \E t \in Threads : Return(t)

\* Threads using the engine and its clone concurrently.
Spec == Init /\ [][Next]_vars

\* A thread inside a call keeps running: it takes each step that stays
\* possible, and it gets the exclusive index lock if the lock is free again
\* and again (a waiting writer is not overtaken by readers forever).
\* The steps of thread t inside a call that wait for no lock.
Step(t) ==
    \/ GetRead(t)
    \/ CompactCreate1(t)
    \/ CompactCreate2(t)
    \/ CompactCopy(t)
    \/ CompactFlush(t)
    \/ CompactUnlink(t)
    \/ Return(t)

\* The steps that take the index lock exclusively (index.write()).
LockStep ==
    \E t \in Threads : SetIndex(t) \/ RemoveIndex(t) \/ CompactLock(t)

Fairness ==
    /\ \A t \in Threads : WF_vars(Step(t))
    /\ SF_vars(LockStep)

\* The calls of the threads on one key and one value (an overwrite reaches
\* the compaction threshold).
NextLive ==
    \/ \E t \in Threads : GetLookup(t, <<"a">>)
    \/ \E t \in Threads : GetRead(t)
    \/ \E t \in Threads : MayWrite /\ SetAppend(t, <<"a">>, <<"y", "y">>)
    \/ \E t \in Threads : SetIndex(t)
    \/ \E t \in Threads : MayWrite /\ RemoveAppend(t, <<"a">>)
    \/ \E t \in Threads : RemoveIndex(t)
    \/ \E t \in Threads : MayWrite /\ CompactStart(t)
    \/ \E t \in Threads : CompactCreate1(t)
    \/ \E t \in Threads : CompactCreate2(t)
    \/ \E t \in Threads : CompactLock(t)
    \/ \E t \in Threads : CompactCopy(t)
    \/ \E t \in Threads : CompactFlush(t)
    \/ \E t \in Threads : CompactUnlink(t)
    \/ \E t \in Threads : Return(t)

\* Threads using the engine and its clone concurrently, each running on.
SpecLive == Init /\ [][NextLive]_vars /\ Fairness

\* The steps of the mutating calls of the thread that holds the original handle.
SeqMayWrite == nops < MaxSeqOps

SeqCall ==
    \/ \E k \in Keys, v \in Values : SeqMayWrite /\ SetAppend(Original, k, v)
    \/ SetIndex(Original)
    \/ \E k \in Keys : SeqMayWrite /\ RemoveAppend(Original, k)
    \/ RemoveIndex(Original)
    \/ SeqMayWrite /\ CompactStart(Original)
    \/ CompactCreate1(Original)
    \/ CompactCreate2(Original)
    \/ CompactLock(Original)
    \/ CompactCopy(Original)
    \/ CompactFlush(Original)
    \/ CompactUnlink(Original)
    \/ Return(Original)

\* One thread using the engine, every call returning before the next starts;
\* the engine may be closed and opened again.
NextSeq ==
    \/ \E k \in Keys : GetLookup(Original, k)
    \/ GetRead(Original)
    \/ SeqCall
    \/ MayOpen /\ Reopen

SpecSeq == Init /\ [][NextSeq]_vars

\* One thread writing to the engine; the engine may be closed and opened
\* again, and the process may stop inside any call and be started again.
NextStop ==
    \/ SeqCall
    \/ MayOpen /\ Reopen
    \/ MayOpen /\ Crash

SpecStop == Init /\ [][NextStop]_vars

MayFail == nops < MaxOps /\ nfails < MaxFails

\* The steps of the mutating calls of one thread, within the bound of a run
\* in which writes may fail.
FailCall ==
    \/ \E k \in Keys, v \in Values : MayWrite /\ SetAppend(Original, k, v)
    \/ SetIndex(Original)
    \/ \E k \in Keys : MayWrite /\ RemoveAppend(Original, k)
    \/ RemoveIndex(Original)
    \/ MayWrite /\ CompactStart(Original)
    \/ CompactCreate1(Original)
    \/ CompactCreate2(Original)
    \/ CompactLock(Original)
    \/ CompactCopy(Original)
    \/ CompactFlush(Original)
    \/ CompactUnlink(Original)
    \/ Return(Original)

\* One thread writing to the engine; encoding or flushing the record of a set
\* or remove may fail with an I/O error.
NextFail ==
    \/ FailCall
    \/ \E k \in Keys, v \in Values : MayFail /\ SetFail(Original, k, v)
    \/ \E k \in Keys : MayFail /\ RemoveFail(Original, k)

SpecFail == Init /\ [][NextFail]_vars

\* One thread using the engine, every call returning before the next starts;
\* a step of a compaction (reading a record, writing it to the compaction
\* segment, flushing the segment, unlinking a stale file) may fail with an
\* I/O error.
NextCompactFail ==
    \/ \E k \in Keys : GetLookup(Original, k)
    \/ GetRead(Original)
    \/ SeqCall
    \/ nfails < MaxFails /\ CompactReadFail(Original)
    \/ nfails < MaxFails /\ CompactWriteFail(Original)
    \/ nfails < MaxFails /\ CompactFlushFail(Original)
    \/ nfails < MaxFails /\ CompactUnlinkFail(Original)

SpecCompactFail == Init /\ [][NextCompactFail]_vars

\* ------------------------------------------------------------ the claims

Returning(t, op) == pc[t] = "done" /\ loc[t].op = op

\* What get returns for a key whose value in the abstract map is v.
Expected(v) == IF v = Absent THEN Result("None") ELSE Some(v)

HasRemove(bytes) == \E i \in 1..Len(bytes) : bytes[i] = "R"

\* The commands of a segment, in order, each with its start and length; ok is
\* FALSE when the bytes are no sequence of whole commands.
RECURSIVE Scan(_, _, _)
Scan(b, pos, acc) ==
    IF pos >= Len(b) THEN [ok |-> TRUE, recs |-> acc]
    ELSE LET r == ParseCommand(b, pos + 1) IN
         IF ~r.ok THEN [ok |-> FALSE, recs |-> acc]
         ELSE Scan(b, r.next - 1,
                   Append(acc, [cmd |-> r.cmd, pos |-> pos, len |-> r.next - 1 - pos]))

\* A compaction (explicit, or triggered inside set or remove) is returning Ok.
Compacted(t) == pc[t] = "done" /\ loc[t].compacted /\ ret[t].kind = "Ok"

\* C1: in a run of one thread, every get(k) returns Some(v) for the value v of
\* the most recent set(k, v) not followed by a remove(k), and None otherwise:
\* the result is the entry of the abstract map driven by the same calls (also
\* across compactions and a close and reopen).
C1_ReadYourWrites ==
    \A t \in Threads :
        Returning(t, "get") => ret[t] = Expected(model[loc[t].key])

\* A get returns the overwriting value out of a compaction segment.
C1_Witness ==
    \E t \in Threads :
        /\ Returning(t, "get")
        /\ ret[t] = Some(<<"y", "y">>)
        /\ uncompacted > 0
        /\ how = "open"
        /\ index[loc[t].key].gen = current_gen - 1

\* C2: closing the engine and opening the same directory again succeeds and
\* leaves the key -> value mapping that get observes unchanged.
C2_ReopenSameMapping ==
    [][Reopen => (opened' /\ MappingOf(index', dir', fs') = Mapping)]_vars

\* The directory was reopened with a Remove record on disk and a live key.
C2_Witness ==
    /\ how = "reopen"
    /\ Quiescent
    /\ \E n \in dir : HasRemove(fs[n])
    /\ \E k \in Keys : Mapping[k] = Absent
    /\ \E k \in Keys : Mapping[k] \in Values

\* C3: when a compaction returns (called directly, or triggered inside set or
\* remove after the index update), the mapping get observes is the mapping it
\* observed when the compaction started.
C3_CompactionNoOp ==
    \A t \in Threads : Compacted(t) => Mapping = cstart

\* A compaction triggered inside set returns with two live keys.
C3_Witness ==
    \E t \in Threads :
        /\ Compacted(t)
        /\ loc[t].op = "set"
        /\ Cardinality(DOMAIN index) = 2

\* The get of thread t is reading a range that its segment file holds in full.
RangePresent(t) ==
    LET off == loc[t].off IN
    /\ off.gen \in pools[t] \/ db_path(off.gen) \in dir
    /\ db_path(off.gen) \in DOMAIN fs
    /\ Len(fs[db_path(off.gen)]) >= off.pos + off.len

\* C4: a get running concurrently with a set or a compaction never reads a
\* byte range that its segment file does not hold in full, never fails, and
\* returns the value the key had before or after that operation.
C4_ConcurrentGet ==
    \A t \in Threads :
        /\ pc[t] = "get_read" => RangePresent(t)
        /\ Returning(t, "get") =>
              /\ ret[t].kind \in {"Some", "None"}
              /\ ValueOf(ret[t]) \in gacc[t]

\* C5: a get(k) that starts after a set(k, v) returned on any clone returns
\* Some(v) or the value of a later write to k (for a key only the calling
\* thread writes, that is its own last write), and every value a get returns
\* was written by a write that went before it under the writer lock.
C5_VisibleAfterReturn ==
    \A t \in Threads :
        Returning(t, "get") => ret[t] \in {Expected(v) : v \in gacc[t]}

\* C6: remove(k) for a key the index does not hold returns KeyNotFound and
\* appends no byte: the files, the directory, the index, uncompacted, the
\* active generation and the writer's position are unchanged.
C6_RemoveMissing ==
    [][\A t \in Threads, k \in Keys :
          (RemoveAppend(t, k) /\ k \notin DOMAIN index) =>
              /\ ret'[t] = Result("KeyNotFound")
              /\ UNCHANGED <<fs, dir, index, uncompacted, current_gen, wpos>>]_vars

\* remove returns KeyNotFound for a key that was set and removed before.
C6_Witness ==
    \E t \in Threads :
        /\ Returning(t, "remove")
        /\ ret[t] = Result("KeyNotFound")
        /\ uncompacted > 0
        /\ \E n \in dir : HasRemove(fs[n])

CompactPlaces == {"c_create1", "c_create2", "c_lock", "c_copy", "c_flush", "c_unlink"}

\* C7: if the process stops between any two file-system steps of a compaction,
\* the next open of the directory succeeds and replays to the mapping the
\* store had when the compaction started.
C7_StopInCompaction ==
    [][(Crash /\ \E t \in Threads : pc[t] \in CompactPlaces) =>
          (opened' /\ MappingOf(index', dir', fs') = cstart)]_vars

\* The process stopped after a compaction unlinked segment 1 and before it
\* unlinked segment 2, an active segment of an earlier open (it holds a Remove).
C7_Witness ==
    /\ how = "stop"
    /\ db_path(1) \notin dir
    /\ {db_path(2), db_path(3), db_path(4)} \subseteq dir
    /\ HasRemove(fs[db_path(2)])

\* C8: when a compaction returns, the directory holds the compaction segment
\* current_gen - 1 and the active segment current_gen only; the compaction
\* segment is a gapless sequence from offset 0 of exactly one Set record per
\* key of the index, which is the record the key's entry names, with no Remove
\* record; and the active segment is empty.
C8_NoStaleRecord ==
    \A t \in Threads :
        Compacted(t) =>
            LET sc == Scan(fs[db_path(current_gen - 1)], 0, <<>>) IN
            /\ dir = {db_path(current_gen - 1), db_path(current_gen)}
            /\ sc.ok
            /\ Len(sc.recs) = Cardinality(DOMAIN index)
            /\ \A i \in 1..Len(sc.recs) :
                  /\ sc.recs[i].cmd.type = "Set"
                  /\ sc.recs[i].cmd.key \in DOMAIN index
                  /\ index[sc.recs[i].cmd.key] =
                        [gen |-> current_gen - 1, pos |-> sc.recs[i].pos,
                         len |-> sc.recs[i].len]
            /\ fs[db_path(current_gen)] = <<>>

\* A compaction returns with two live keys after an earlier open left a
\* second stale segment.
C8_Witness ==
    \E t \in Threads :
        /\ Compacted(t)
        /\ Cardinality(DOMAIN index) = 2
        /\ how = "reopen"

\* The directory was empty when first opened, no mutating call was made, and
\* it was opened a second time.
ReopenedUntouched == how = "reopen" /\ nops = 0 /\ nopens = 1

\* C9 as stated: after opening an empty directory, making no call and opening
\* it again, the directory holds exactly one segment file, of generation 1.
C9_OneSegment == ReopenedUntouched => dir = {db_path(1)}

\* C9 as amended: after opening an empty directory, making no call and
\* opening it again, the directory holds exactly two segment files, of
\* generations 1 and 2, both empty, and generation 2 is the active one.
C9_TwoSegments ==
    ReopenedUntouched =>
        /\ dir = {db_path(1), db_path(2)}
        /\ fs[db_path(1)] = <<>>
        /\ fs[db_path(2)] = <<>>
        /\ current_gen = 2

C9_Witness == ReopenedUntouched

\* The largest generation of a segment of directory d, 0 when it has none.
MaxGen(d) ==
    IF GenSet(d) = {} THEN 0
    ELSE CHOOSE g \in GenSet(d) : \A h \in GenSet(d) : h <= g

\* C10: open makes the active generation the largest generation of a segment
\* of the directory plus 1, or 1 for a directory without segment, and creates
\* its file: after open the active generation is strictly greater than the
\* generation of every other segment.
C10_NextGeneration ==
    /\ current_gen = 1 /\ dir = {db_path(1)}
    /\ [][(Reopen \/ Crash) =>
            /\ opened'
            /\ current_gen' = MaxGen(dir) + 1
            /\ db_path(current_gen') \in dir'
            /\ \A g \in GenSet(dir') \ {current_gen'} : g < current_gen']_vars

\* The directory was opened when its segments were not numbered from 1.
C10_Witness ==
    /\ how # "open"
    /\ db_path(1) \notin dir
    /\ current_gen >= 4
    /\ Cardinality(dir) = 3

\* The sum of Len over the files of directory d.
RECURSIVE FileBytes(_, _)
FileBytes(d, f) ==
    IF d = {} THEN 0
    ELSE LET n == CHOOSE n \in d : TRUE IN Len(f[n]) + FileBytes(d \ {n}, f)

\* The sum of the lengths of the records the index names.
RECURSIVE LiveBytes(_)
LiveBytes(idx) ==
    IF DOMAIN idx = {} THEN 0
    ELSE LET k == CHOOSE k \in DOMAIN idx : TRUE
         IN idx[k].len + LiveBytes([j \in DOMAIN idx \ {k} |-> idx[j]])

\* The bytes on disk of the records no index entry names: the superseded Set
\* records and the Remove records.
StaleBytes == FileBytes(dir, fs) - LiveBytes(index)

\* C11: whenever no call is running, uncompacted equals the byte length of
\* the records on disk that are stale: every Set record superseded by a later
\* Set or Remove, and every Remove record.
C11_UncompactedIsStale == Quiescent => uncompacted = StaleBytes

\* C12: when a compaction returns Ok, uncompacted is 0.
C12_CompactionResets ==
    \A t \in Threads : Compacted(t) => uncompacted = 0

\* The index entry of key k names a file of the directory that holds the
\* whole range, and the range decodes to a Set command for k.
EntrySound(k) ==
    LET off == index[k] IN
    /\ db_path(off.gen) \in dir
    /\ Len(fs[db_path(off.gen)]) >= off.pos + off.len
    /\ LET c == from_slice(SubSeq(fs[db_path(off.gen)], off.pos + 1, off.pos + off.len))
       IN c.ok /\ c.cmd.type = "Set" /\ c.cmd.key = k

\* C13: in every state in which the index lock is not held exclusively, each
\* index entry names an existing segment file whose bytes [pos, pos+len) are
\* in the file and decode to a Set command with the entry's key; and no get
\* returns through its non-Set branch.
C13_EntriesDecode ==
    /\ ~iw => \A k \in DOMAIN index : EntrySound(k)
    /\ \A t \in Threads : Returning(t, "get") => ret[t].kind # "Panic"

\* C14: from the rewrite of the first index entry until the last stale
\* segment is unlinked, the compaction holds the index lock exclusively.
C14_LockThroughUnlink ==
    \A t \in Threads :
        (pc[t] \in {"c_flush", "c_unlink"} /\ cw_pos > 0) => iw

\* C15: a step that unlinks a segment file finds no index entry naming its
\* generation, and while a get reads at the offset it took from the index
\* under the shared lock, the segment file the offset names exists.
C15_UnlinkAfterRedirect ==
    /\ [](\A t \in Threads : pc[t] = "get_read" => db_path(loc[t].off.gen) \in dir)
    /\ [][\A n \in dir \ dir' :
             \A k \in DOMAIN index : db_path(index[k].gen) # n]_vars

\* A get holds an offset into the compaction segment while the compaction
\* that wrote it has unlinked the segment the record came from.
C15_Witness ==
    \E t, u \in Threads :
        /\ pc[t] = "get_read"
        /\ pc[u] = "c_unlink"
        /\ loc[t].off.gen = current_gen - 1
        /\ db_path(1) \notin dir

\* C16: when a compaction has returned Ok, no accessor's pool (the writer's,
\* the original handle's, a clone's) holds a reader for a generation whose
\* file is no longer in the directory.
C16_NoStaleReader ==
    \A t \in Threads :
        Compacted(t) => \A a \in Accessors : \A g \in pools[a] : db_path(g) \in dir

\* C17: a set or remove whose encoding or flush fails returns the error with
\* the index and uncompacted as they were before the call; and whenever no
\* call is running, every index entry names a whole Set record of its key in
\* its segment file and get observes the mapping of the successful calls:
\* no entry points at what a failed write left behind.
C17_FailedWriteKeepsIndex ==
    /\ [](Quiescent => /\ \A k \in DOMAIN index : EntrySound(k)
                       /\ Mapping = model)
    /\ [][\A t \in Threads :
             (pc[t] = "idle" /\ ret'[t].kind = "Err") =>
                 /\ loc'[t].op \in {"set", "remove"}
                 /\ index' = index
                 /\ uncompacted' = uncompacted]_vars

\* A set succeeded after a failed write left bytes in the segment file and
\* in the writer: its index entry lies past them.
C17_Witness ==
    /\ Quiescent
    /\ nfails > 0
    /\ \E k \in DOMAIN index :
          /\ index[k].gen = current_gen
          /\ index[k].pos > 0
          /\ index[k].pos + index[k].len = Len(fs[db_path(current_gen)])
          /\ ~Scan(fs[db_path(current_gen)], 0, <<>>).ok

IsPrefix(a, b) == Len(a) <= Len(b) /\ SubSeq(b, 1, Len(a)) = a

GenOf(n) == ParseU64(TrimEnd(n))

\* C18: a compaction started at active generation g makes g+2 the active
\* generation; a step changes a segment file only by appending to it; and it
\* leaves unchanged every segment of a generation below the active one,
\* except the compaction segment while the compaction that created it is
\* copying or flushing: records of set and remove go to the active segment,
\* and the compaction segment is not written after the compaction returned.
C18_SegmentsImmutable ==
    [][/\ \A t \in Threads :
             (pc[t] = "c_create2" /\ pc'[t] # "c_create2") =>
                 current_gen' = current_gen + 2
       /\ \A n \in dir \cap dir' :
             /\ IsPrefix(fs[n], fs'[n])
             /\ (/\ GenOf(n) < current_gen
                 /\ ~(/\ GenOf(n) = current_gen - 1
                      /\ \E t \in Threads : pc[t] \in {"c_copy", "c_flush"}))
                => fs'[n] = fs[n]]_vars

\* After a compaction returned, a set appended its record to the new active
\* segment, beside the non-empty compaction segment.
C18_Witness ==
    /\ Quiescent
    /\ how = "open"
    /\ current_gen = 3
    /\ dir = {db_path(2), db_path(3)}
    /\ Len(fs[db_path(2)]) > 0
    /\ Len(fs[db_path(3)]) > 0

\* Thread t is inside a set, remove or compact (a compaction triggered inside
\* set or remove included) that has not returned yet.
InWrite(t) ==
    \/ pc[t] \in {"set_index", "rm_index"} \cup CompactPlaces
    \/ pc[t] = "done" /\ loc[t].op \in {"set", "remove", "compact"}

\* C19: a thread inside a set, remove or compact holds the writer mutex from
\* the start of the call until it returns, so at most one thread is inside
\* one at any time.
C19_WritesSerialized ==
    /\ \A t \in Threads : InWrite(t) => mutex = t
    /\ Cardinality({t \in Threads : InWrite(t)}) <= 1

\* A compaction triggered inside a set is unlinking while the other thread
\* is inside a get.
C19_Witness ==
    \E t, u \in Threads :
        /\ pc[t] = "c_unlink"
        /\ loc[t].op = "set"
        /\ pc[u] = "get_read"

CompactionFailed(t) == pc[t] = "done" /\ loc[t].compacted /\ ret[t].kind = "Err"

\* C21: when a compaction returns an I/O error (a record could not be read or
\* written to the compaction segment, the segment could not be flushed, or a
\* stale file could not be unlinked), every index entry names a whole Set
\* record of its key in a segment file of the directory, and the mapping get
\* observes is the mapping it observed when the compaction started.
C21_FailedCompactionKeepsIndex ==
    \A t \in Threads :
        CompactionFailed(t) =>
            /\ \A k \in DOMAIN index : EntrySound(k)
            /\ Mapping = cstart

====
